---- MODULE Spec2Model ----
(***************************************************************************)
(* A model of the lisper crate (src/src/lib.rs): tokenize, parse,          *)
(* parse_token, Display, create_default_env, eval and the built-ins.       *)
(*                                                                         *)
(* Representation.                                                         *)
(*   - A String is a sequence of one-character strings, so that replace,   *)
(*     split_whitespace, parse::<f64> and to_string are computed character *)
(*     by character.                                                       *)
(*   - A LisperExp is a pair <<tag, payload>> with tag one of "Bool",      *)
(*     "Symbol", "Number", "List".                                         *)
(*   - An f64 is an exact rational [k |-> "fin", n, d] in lowest terms, or *)
(*     +inf / -inf / NaN.  Rounding, overflow to infinity and the sign of  *)
(*     zero are not modelled.  The value of sin, cos and tan away from 0   *)
(*     is not a rational: it is the untracked value Approx, and whatever   *)
(*     is computed from it is untracked as well.                           *)
(*   - A panic (index out of bounds) is the value Panic; it unwinds        *)
(*     through every caller.                                               *)
(***************************************************************************)
EXTENDS Integers, Sequences, FiniteSets, TLC

VARIABLES
    op,      \* the function called last: "init" (none yet), "tokenize", "parse", "call", "eval"
    arg,     \* its argument
    ret,     \* what it returned
    env,     \* the LisperEnv handed to eval by &mut reference (its data map)
    env0,    \* the caller's clone of the environment, taken at construction
    input,   \* what the caller starts from: a text, mock tokens, a built-in's name and argument, or an expression
    stream,  \* the tokens the caller has not parsed yet
    forms,   \* the forms the caller has parsed so far, in order
    events   \* the steps the last eval took, in the order it took them

vars == <<op, arg, ret, env, env0, input, stream, forms, events>>

(***************************************************************************)
(* Bounds of the model.                                                    *)
(***************************************************************************)
MaxTextLen == 5
MaxTokens == 5
MaxArgs == 3
MaxEvalArgs == 2

(***************************************************************************)
(* Characters and strings.                                                 *)
(***************************************************************************)
LP == "("
RP == ")"

\* char::is_whitespace, as used by split_whitespace (ASCII members)
IsWhitespace(c) == c \in {" ", "\t", "\n", "\r"}

\* str::replace with a one-character pattern
RECURSIVE Replace(_, _, _)
Replace(s, pat, with) ==
    IF s = <<>> THEN <<>>
    ELSE (IF Head(s) = pat THEN with ELSE <<Head(s)>>) \o Replace(Tail(s), pat, with)

\* str::split_whitespace: the maximal runs of non-whitespace characters, in order
RECURSIVE SplitFrom(_, _, _)
SplitFrom(s, cur, acc) ==
    IF s = <<>> THEN (IF cur = <<>> THEN acc ELSE Append(acc, cur))
    ELSE IF IsWhitespace(Head(s))
         THEN SplitFrom(Tail(s), <<>>, IF cur = <<>> THEN acc ELSE Append(acc, cur))
         ELSE SplitFrom(Tail(s), Append(cur, Head(s)), acc)

split_whitespace(s) == SplitFrom(s, <<>>, <<>>)

\* the replacement text of .replace("(", "( ")
PadOpen == <<LP, " ">>
\* the replacement text of .replace(")", " )")
PadClose == <<" ", RP>>

\* pub fn tokenize(expr: String) -> Vec<String>
tokenize(expr) ==
    split_whitespace(Replace(Replace(expr, LP, PadOpen), RP, PadClose))

(***************************************************************************)
(* f64.                                                                    *)
(***************************************************************************)
Abs(x) == IF x < 0 THEN -x ELSE x
Sgn(x) == IF x < 0 THEN -1 ELSE IF x > 0 THEN 1 ELSE 0

RECURSIVE GCD(_, _)
GCD(a, b) == IF b = 0 THEN a ELSE GCD(b, a % b)

RECURSIVE Pow10(_)
Pow10(k) == IF k <= 0 THEN 1 ELSE 10 * Pow10(k - 1)

\* the finite value n/d (d > 0), in lowest terms
Fin(n, d) == LET g == GCD(Abs(n), d) IN [k |-> "fin", n |-> n \div g, d |-> d \div g]
\* f64::INFINITY (s = 1) and f64::NEG_INFINITY (s = -1)
Inf(s) == [k |-> "inf", n |-> s, d |-> 0]
NaN == [k |-> "nan", n |-> 0, d |-> 0]
\* a value of the f64 type that the model does not track
Approx == [k |-> "approx", n |-> 0, d |-> 0]
\* core::f64::consts::PI
PI == [k |-> "pi", n |-> 0, d |-> 0]

Tracked(a) == a.k \in {"fin", "inf"}
IsZero(a) == a.k = "fin" /\ a.n = 0

fneg(a) == [a EXCEPT !.n = -a.n]

\* a + b
fadd(a, b) ==
    IF a.k = "nan" \/ b.k = "nan" THEN NaN
    ELSE IF ~Tracked(a) \/ ~Tracked(b) THEN Approx
    ELSE IF a.k = "inf" /\ b.k = "inf" THEN (IF a.n = b.n THEN a ELSE NaN)
    ELSE IF a.k = "inf" THEN a
    ELSE IF b.k = "inf" THEN b
    ELSE Fin(a.n * b.d + b.n * a.d, a.d * b.d)

\* a - b
fsub(a, b) ==
    IF a.k = "nan" \/ b.k = "nan" THEN NaN
    ELSE IF ~Tracked(a) \/ ~Tracked(b) THEN Approx
    ELSE fadd(a, fneg(b))

\* a * b
fmul(a, b) ==
    IF a.k = "nan" \/ b.k = "nan" THEN NaN
    ELSE IF ~Tracked(a) \/ ~Tracked(b) THEN Approx
    ELSE IF a.k = "inf" \/ b.k = "inf"
         THEN (IF IsZero(a) \/ IsZero(b) THEN NaN ELSE Inf(Sgn(a.n) * Sgn(b.n)))
    ELSE Fin(a.n * b.n, a.d * b.d)

\* a / b (a zero divisor is +0.0)
fdiv(a, b) ==
    IF a.k = "nan" \/ b.k = "nan" THEN NaN
    ELSE IF ~Tracked(a) \/ ~Tracked(b) THEN Approx
    ELSE IF a.k = "inf"
         THEN (IF b.k = "inf" THEN NaN ELSE Inf(a.n * (IF b.n < 0 THEN -1 ELSE 1)))
    ELSE IF b.k = "inf" THEN Fin(0, 1)
    ELSE IF b.n = 0 THEN (IF a.n = 0 THEN NaN ELSE Inf(Sgn(a.n)))
    ELSE Fin(a.n * b.d * Sgn(b.n), a.d * Abs(b.n))

\* a % b: the remainder of the division truncated toward zero (fmod)
frem(a, b) ==
    IF a.k = "nan" \/ b.k = "nan" THEN NaN
    ELSE IF ~Tracked(a) \/ ~Tracked(b) THEN Approx
    ELSE IF a.k = "inf" \/ IsZero(b) THEN NaN
    ELSE IF b.k = "inf" THEN a
    ELSE LET num == a.n * b.d
             den == a.d * b.n
             t == Sgn(num) * Sgn(den) * (Abs(num) \div Abs(den))
         IN Fin(a.n * b.d - t * b.n * a.d, a.d * b.d)

\* a < b on tracked values
Less(a, b) ==
    IF a.k = "inf" THEN a.n = -1 /\ ~(b.k = "inf" /\ b.n = -1)
    ELSE IF b.k = "inf" THEN b.n = 1
    ELSE a.n * b.d < b.n * a.d

\* The outcome of a comparison: [b |-> its value, known |-> whether the model tracks it].
\* Every comparison with NaN is false.
Compare(rel, a, b) ==
    IF a.k = "nan" \/ b.k = "nan" THEN [b |-> FALSE, known |-> TRUE]
    ELSE IF ~Tracked(a) \/ ~Tracked(b) THEN [b |-> FALSE, known |-> FALSE]
    ELSE [b |-> CASE rel = "<"  -> Less(a, b)
                  [] rel = ">"  -> Less(b, a)
                  [] rel = "==" -> a = b
                  [] rel = "<=" -> Less(a, b) \/ a = b
                  [] rel = ">=" -> Less(b, a) \/ a = b,
          known |-> TRUE]

\* f64::sin, f64::cos, f64::tan
fsin(a) ==
    IF a.k \in {"nan", "inf"} THEN NaN ELSE IF IsZero(a) THEN Fin(0, 1) ELSE Approx
fcos(a) ==
    IF a.k \in {"nan", "inf"} THEN NaN ELSE IF IsZero(a) THEN Fin(1, 1) ELSE Approx
ftan(a) ==
    IF a.k \in {"nan", "inf"} THEN NaN ELSE IF IsZero(a) THEN Fin(0, 1) ELSE Approx

(***************************************************************************)
(* Text of numbers and booleans: str::parse and to_string.                 *)
(***************************************************************************)
Digits == <<"0", "1", "2", "3", "4", "5", "6", "7", "8", "9">>
IsDigit(c) == \E i \in 1..10 : Digits[i] = c
DigitVal(c) == (CHOOSE i \in 1..10 : Digits[i] = c) - 1

RECURSIVE LeadingDigits(_)
LeadingDigits(s) ==
    IF s = <<>> \/ ~IsDigit(Head(s)) THEN 0 ELSE 1 + LeadingDigits(Tail(s))

RECURSIVE DigitsValue(_, _)
DigitsValue(s, acc) ==
    IF s = <<>> THEN acc ELSE DigitsValue(Tail(s), 10 * acc + DigitVal(Head(s)))

ToLower(c) ==
    CASE c = "I" -> "i" [] c = "N" -> "n" [] c = "F" -> "f" [] c = "T" -> "t"
      [] c = "Y" -> "y" [] c = "A" -> "a" [] OTHER -> c

Lowered(s) == [i \in 1..Len(s) |-> ToLower(s[i])]

None == [ok |-> FALSE, val |-> NaN]
Some(v) == [ok |-> TRUE, val |-> v]

\* the decimal part of the f64 grammar: digits [. digits] [e [+-] digits]
ParseDecimal(s) ==
    LET i == LeadingDigits(s)
        r1 == SubSeq(s, i + 1, Len(s))
        hasDot == r1 # <<>> /\ Head(r1) = "."
        r2 == IF hasDot THEN Tail(r1) ELSE r1
        j == IF hasDot THEN LeadingDigits(r2) ELSE 0
        r3 == SubSeq(r2, j + 1, Len(r2))
        hasExp == r3 # <<>> /\ Head(r3) \in {"e", "E"}
        r4 == IF hasExp THEN Tail(r3) ELSE r3
        eNeg == hasExp /\ r4 # <<>> /\ Head(r4) = "-"
        r5 == IF hasExp /\ r4 # <<>> /\ Head(r4) \in {"+", "-"} THEN Tail(r4) ELSE r4
        ok == /\ i + j > 0
              /\ IF hasExp THEN r5 # <<>> /\ LeadingDigits(r5) = Len(r5) ELSE r3 = <<>>
        mant == DigitsValue(SubSeq(s, 1, i) \o SubSeq(r2, 1, j), 0)
        e == (IF hasExp THEN (IF eNeg THEN -1 ELSE 1) * DigitsValue(r5, 0) ELSE 0) - j
    IN IF ~ok THEN None
       ELSE IF e >= 0 THEN Some(Fin(mant * Pow10(e), 1))
       ELSE Some(Fin(mant, Pow10(-e)))

\* token.parse::<f64>()
ParseF64(s) ==
    LET signed == s # <<>> /\ Head(s) \in {"+", "-"}
        neg == s # <<>> /\ Head(s) = "-"
        body == IF signed THEN Tail(s) ELSE s
        word == Lowered(body)
    IN IF word = <<"i", "n", "f">> \/ word = <<"i", "n", "f", "i", "n", "i", "t", "y">>
       THEN Some(Inf(IF neg THEN -1 ELSE 1))
       ELSE IF word = <<"n", "a", "n">> THEN Some(NaN)
       ELSE LET r == ParseDecimal(body)
            IN IF r.ok /\ neg THEN Some(fneg(r.val)) ELSE r

TrueText == <<"t", "r", "u", "e">>
FalseText == <<"f", "a", "l", "s", "e">>

\* token.parse::<bool>()
ParseBool(s) ==
    IF s = TrueText THEN [ok |-> TRUE, val |-> TRUE]
    ELSE IF s = FalseText THEN [ok |-> TRUE, val |-> FALSE]
    ELSE [ok |-> FALSE, val |-> FALSE]

\* the decimal digits of a natural number
RECURSIVE NatText(_)
NatText(n) ==
    IF n < 10 THEN <<Digits[n + 1]>> ELSE Append(NatText(n \div 10), Digits[(n % 10) + 1])

\* the digits after the decimal point of r/d (0 < r < d), d having no prime
\* factor but 2 and 5
RECURSIVE FracText(_, _)
FracText(r, d) ==
    IF r = 0 THEN <<>>
    ELSE <<Digits[((10 * r) \div d) + 1]>> \o FracText((10 * r) % d, d)

RECURSIVE Stripped(_, _)
Stripped(d, p) == IF d % p = 0 THEN Stripped(d \div p, p) ELSE d

Terminating(d) == Stripped(Stripped(d, 2), 5) = 1

PiText ==
    <<"3", ".", "1", "4", "1", "5", "9", "2", "6", "5", "3", "5", "8", "9", "7", "9", "3">>

\* f64::to_string: no exponent, no trailing ".0".  A fraction whose expansion does
\* not terminate, and an untracked value, have digits the model does not compute:
\* their text is "?".
NumberText(a) ==
    CASE a.k = "nan" -> <<"N", "a", "N">>
      [] a.k = "inf" -> (IF a.n < 0 THEN <<"-">> ELSE <<>>) \o <<"i", "n", "f">>
      [] a.k = "pi" -> PiText
      [] a.k = "fin" /\ Terminating(a.d) ->
            (IF a.n < 0 THEN <<"-">> ELSE <<>>)
            \o NatText(Abs(a.n) \div a.d)
            \o (IF a.d = 1 THEN <<>> ELSE <<".">> \o FracText(Abs(a.n) % a.d, a.d))
      [] OTHER -> <<"?">>

\* bool::to_string
BoolText(b) == IF b THEN TrueText ELSE FalseText

(***************************************************************************)
(* pub enum LisperExp                                                      *)
(***************************************************************************)
Bool(b) == <<"Bool", b>>
Symbol(s) == <<"Symbol", s>>
Number(n) == <<"Number", n>>
List(items) == <<"List", items>>
\* a Bool whose value the model does not track (a comparison of untracked numbers)
ApproxBool == <<"Bool", FALSE, "approx">>

Tag(e) == e[1]
IsBool(e) == Tag(e) = "Bool"
IsSymbol(e) == Tag(e) = "Symbol"
IsNumber(e) == Tag(e) = "Number"
IsList(e) == Tag(e) = "List"
IsExp(e) == Tag(e) \in {"Bool", "Symbol", "Number", "List"}

\* a thread that panicked: there is no return value
Panic == <<"Panic", "index out of bounds">>
IsPanic(e) == Tag(e) = "Panic"

\* items.join(",")
RECURSIVE Join(_)
Join(texts) ==
    IF texts = <<>> THEN <<>>
    ELSE IF Len(texts) = 1 THEN texts[1]
    ELSE texts[1] \o <<",">> \o Join(Tail(texts))

\* A mutant of ListText: the comma-joined items without the enclosing parentheses.
ListTextBare(texts) == Join(texts)
\* format!("({})", items.join(","))
ListText(texts) == <<LP>> \o Join(texts) \o <<RP>>

\* impl fmt::Display for LisperExp
RECURSIVE Display(_)
Display(e) ==
    CASE IsSymbol(e) -> e[2]
      [] IsNumber(e) -> NumberText(e[2])
      [] IsBool(e) -> IF Len(e) = 2 THEN BoolText(e[2]) ELSE <<"?">>
      [] IsList(e) -> ListText([i \in 1..Len(e[2]) |-> Display(e[2][i])])

\* pub enum LisperErr
Reason(text) == <<"Reason", text>>

(***************************************************************************)
(* parse                                                                   *)
(***************************************************************************)
\* fn parse_token(token: &str) -> LisperExp
parse_token(token) ==
    IF ParseBool(token).ok THEN Bool(ParseBool(token).val)
    ELSE IF ParseF64(token).ok THEN Number(ParseF64(token).val)
    ELSE Symbol(token)

\* Result<(LisperExp, &[String]), LisperErr>
ParseOk(e, rest) == [ok |-> TRUE, exp |-> e, rest |-> rest]
ParseErr(text) == [ok |-> FALSE, exp |-> Reason(text), rest |-> <<>>]

\* A mutant of ListDone: the closing parenthesis is left in the remaining tokens.
ListDoneKeepsCloser(parsed_result, more, more_next) ==
    ParseOk(List(parsed_result), more)
\* return Ok((LisperExp::List(parsed_result), more_next))
ListDone(parsed_result, more, more_next) == ParseOk(List(parsed_result), more_next)

\* next == ")"
IsCloser(next) == next = <<RP>>

\* A mutant of MissingCloser: the end of the tokens closes the list.
MissingCloserCloses(parsed_result) == ParseOk(List(parsed_result), <<>>)
\* more.split_first().ok_or(LisperErr::Reason("Error reading token, missing )."))?
MissingCloser(parsed_result) == ParseErr("Error reading token, missing ).")

\* A mutant of Push: the expression is put in front of the ones parsed before it.
PushFront(parsed_result, exp) == <<exp>> \o parsed_result
\* parsed_result.push(exp)
Push(parsed_result, exp) == Append(parsed_result, exp)

RECURSIVE parse(_), parse_list(_, _)

\* the loop of parse's "(" arm, entered with the tokens not yet consumed and the
\* expressions pushed so far
parse_list(more, parsed_result) ==
    IF more = <<>> THEN MissingCloser(parsed_result)
    ELSE IF IsCloser(Head(more)) THEN ListDone(parsed_result, more, Tail(more))
    ELSE LET r == parse(more)
         IN IF ~r.ok THEN r
            ELSE parse_list(r.rest, Push(parsed_result, r.exp))

\* pub fn parse<'a>(tokens: &'a [String]) -> Result<(LisperExp, &'a [String]), LisperErr>
parse(tokens) ==
    IF tokens = <<>> THEN ParseErr("Could not get token")
    ELSE LET first == Head(tokens)
             rest == Tail(tokens)
         IN CASE first = <<LP>> -> parse_list(rest, <<>>)
              [] first = <<RP>> -> ParseErr("Parsing error, found unexpected ).")
              [] OTHER -> ParseOk(parse_token(first), rest)

(***************************************************************************)
(* The built-ins.  Each is a fn(&LisperExp) -> LisperExp.                  *)
(***************************************************************************)
Zero == Fin(0, 1)

\* sum += n, sum -= n, sum *= n, sum /= n, sum %= n
ArithOp(f, sum, n) ==
    CASE f = "add" -> fadd(sum, n)
      [] f = "sub" -> fsub(sum, n)
      [] f = "mul" -> fmul(sum, n)
      [] f = "div" -> fdiv(sum, n)
      [] f = "modulus" -> frem(sum, n)

\* the loop of add, sub, mul, div and modulus over list.iter().enumerate(): i is
\* the 1-based position (the code's i + 1)
RECURSIVE ArithLoop(_, _, _, _)
ArithLoop(f, list, i, sum) ==
    IF i > Len(list) THEN sum
    ELSE ArithLoop(f, list, i + 1,
            IF IsNumber(list[i])
            THEN (IF i = 1 THEN list[i][2] ELSE ArithOp(f, sum, list[i][2]))
            ELSE sum)

Arith(f, args) == Number(IF IsList(args) THEN ArithLoop(f, args[2], 1, Zero) ELSE Zero)

add(args) == Arith("add", args)
sub(args) == Arith("sub", args)
mul(args) == Arith("mul", args)
div(args) == Arith("div", args)
modulus(args) == Arith("modulus", args)

\* res = false, not yet overwritten by a comparison
NoComparison == [b |-> FALSE, known |-> TRUE]

\* A mutant of CompareStep: prev is not advanced to the current number.
CompareStepKeepsPrev(rel, st, n) == [prev |-> st.prev, res |-> Compare(rel, st.prev, n)]
\* res = prev OP *n; prev = *n;
CompareStep(rel, st, n) == [prev |-> n, res |-> Compare(rel, st.prev, n)]

\* if i == 0 { prev = *n; }
CompareFirst(rel, st, n) == [prev |-> n, res |-> st.res]

\* the loop of the five comparators; st is [prev, res]
RECURSIVE CompareLoop(_, _, _, _)
CompareLoop(rel, list, i, st) ==
    IF i > Len(list) THEN st
    ELSE CompareLoop(rel, list, i + 1,
            IF IsNumber(list[i])
            THEN (IF i = 1 THEN CompareFirst(rel, st, list[i][2])
                           ELSE CompareStep(rel, st, list[i][2]))
            ELSE st)

Comparator(rel, args) ==
    LET st == IF IsList(args)
              THEN CompareLoop(rel, args[2], 1, [prev |-> Zero, res |-> NoComparison])
              ELSE [prev |-> Zero, res |-> NoComparison]
    IN IF st.res.known THEN Bool(st.res.b) ELSE ApproxBool

less_than(args) == Comparator("<", args)
more_than(args) == Comparator(">", args)
equals(args) == Comparator("==", args)
less_or_equal(args) == Comparator("<=", args)
more_or_equal(args) == Comparator(">=", args)

TrigOp(f, n) ==
    CASE f = "sin" -> fsin(n)
      [] f = "cos" -> fcos(n)
      [] f = "tan" -> ftan(n)

\* list[0] of an empty Vec panics
Trig(f, args) ==
    IF IsList(args)
    THEN (IF args[2] = <<>> THEN Panic
          ELSE IF IsNumber(args[2][1]) THEN Number(TrigOp(f, args[2][1][2]))
          ELSE Number(Zero))
    ELSE Number(Zero)

sin(args) == Trig("sin", args)
cos(args) == Trig("cos", args)
tan(args) == Trig("tan", args)

\* |_| -> LisperExp { LisperExp::Number(core::f64::consts::PI) }
pi(args) == Number(PI)

\* a call through a fn pointer of the environment
Apply(f, args) ==
    CASE f = "add" -> add(args)
      [] f = "sub" -> sub(args)
      [] f = "mul" -> mul(args)
      [] f = "div" -> div(args)
      [] f = "modulus" -> modulus(args)
      [] f = "less_than" -> less_than(args)
      [] f = "more_than" -> more_than(args)
      [] f = "equals" -> equals(args)
      [] f = "less_or_equal" -> less_or_equal(args)
      [] f = "more_or_equal" -> more_or_equal(args)
      [] f = "sin" -> sin(args)
      [] f = "cos" -> cos(args)
      [] f = "tan" -> tan(args)
      [] f = "pi" -> pi(args)

ArithFns == {"add", "sub", "mul", "div", "modulus"}
CompareFns == {"less_than", "more_than", "equals", "less_or_equal", "more_or_equal"}
TrigFns == {"sin", "cos", "tan"}

\* pub fn create_default_env() -> LisperEnv: the data map after its twenty inserts
create_default_env ==
       (<<"+">> :> "add") @@ (<<"a", "d", "d">> :> "add")
    @@ (<<"-">> :> "sub") @@ (<<"s", "u", "b">> :> "sub")
    @@ (<<"*">> :> "mul") @@ (<<"m", "u", "l">> :> "mul")
    @@ (<<"/">> :> "div") @@ (<<"d", "i", "v">> :> "div")
    @@ (<<"%">> :> "modulus") @@ (<<"m", "o", "d">> :> "modulus")
    @@ (<<"<">> :> "less_than") @@ (<<">">> :> "more_than")
    @@ (<<"=">> :> "equals") @@ (<<"=", "=">> :> "equals")
    @@ (<<"<", "=">> :> "less_or_equal") @@ (<<">", "=">> :> "more_or_equal")
    @@ (<<"s", "i", "n">> :> "sin") @@ (<<"c", "o", "s">> :> "cos")
    @@ (<<"t", "a", "n">> :> "tan") @@ (<<"p", "i">> :> "pi")

(***************************************************************************)
(* eval                                                                    *)
(***************************************************************************)
\* Result<LisperExp, LisperErr>, or a panic, with the environment as eval left
\* it and, in log, the steps taken so far in the order they were taken
EvalOk(v, e) == [kind |-> "Ok", val |-> v, env |-> e, log |-> <<>>]
EvalErr(text, e) == [kind |-> "Err", val |-> Reason(text), env |-> e, log |-> <<>>]
EvalPanic(e) == [kind |-> "Panic", val |-> Panic, env |-> e, log |-> <<>>]

\* The steps of an evaluation: eval is entered with an expression, a name is
\* looked up in the environment, a function found there is called.
Entered(exp) == <<"eval", exp>>
LookedUp(key) == <<"get", key>>
Called(f, args) == <<"call", f, args>>

\* the outcome r, reached after the steps of steps
After(steps, r) == [r EXCEPT !.log = steps \o @]

\* Ok(lisper_func(..)): a panic of the built-in unwinds through eval
Returned(v, e) == IF IsPanic(v) THEN EvalPanic(e) ELSE EvalOk(v, e)

Without(e, key) == [x \in DOMAIN e \ {key} |-> e[x]]

\* A mutant of env_get: the entry is taken out of the map (HashMap::remove).
env_remove(e, key) ==
    IF key \in DOMAIN e THEN [found |-> TRUE, f |-> e[key], env |-> Without(e, key)]
    ELSE [found |-> FALSE, f |-> "", env |-> e]
\* env.data.get(&key): the map is only read
env_get(e, key) ==
    IF key \in DOMAIN e THEN [found |-> TRUE, f |-> e[key], env |-> e]
    ELSE [found |-> FALSE, f |-> "", env |-> e]

\* A mutant of Sentinel: a bare symbol's function is called with an empty List.
SentinelEmptyList == List(<<>>)
\* the argument a bare symbol's function is called with
Sentinel == Bool(TRUE)

RECURSIVE eval(_, _), eval_args(_, _, _)

\* A mutant of eval_args: every argument is evaluated before the first error
\* is returned.
eval_args_eager(args, evaluated_args, e) ==
    IF args = <<>> THEN EvalOk(evaluated_args, e)
    ELSE LET r == eval(Head(args), e)
             rest == eval_args(Tail(args), Append(evaluated_args, r.val), r.env)
         IN IF r.kind # "Ok" THEN [r EXCEPT !.log = @ \o rest.log]
            ELSE After(r.log, rest)
\* for arg in args.iter() { evaluated_args.push(eval(arg.clone(), env)?); }
eval_args(args, evaluated_args, e) ==
    IF args = <<>> THEN EvalOk(evaluated_args, e)
    ELSE LET r == eval(Head(args), e)
         IN IF r.kind # "Ok" THEN r
            ELSE After(r.log, eval_args(Tail(args), Append(evaluated_args, r.val), r.env))

\* A mutant of Unbound: a symbol that is not bound evaluates to itself.
UnboundIsItself(exp, e) == EvalOk(exp, e)
\* None => Err(..): a bare symbol that is no key of the environment
Unbound(exp, e) == EvalErr("Eval issue, not a real expression", e)

\* pub fn eval(exp: LisperExp, env: &mut LisperEnv) -> Result<LisperExp, LisperErr>
eval(exp, e) ==
    After(<<Entered(exp)>>,
    CASE IsList(exp) ->
            IF exp[2] = <<>> THEN EvalErr("Error reading expression", e)
            ELSE LET sym == Head(exp[2])
                     a == eval_args(Tail(exp[2]), <<>>, e)
                 IN IF a.kind # "Ok" THEN a
                    ELSE LET g == env_get(a.env, Display(sym))
                             looked == a.log \o <<LookedUp(Display(sym))>>
                         IN IF ~g.found
                            THEN After(looked, EvalErr("Error, function not found.", g.env))
                            ELSE After(looked \o <<Called(g.f, List(a.val))>>,
                                       Returned(Apply(g.f, List(a.val)), g.env))
      [] IsNumber(exp) -> EvalOk(exp, e)
      [] IsSymbol(exp) ->
            LET g == env_get(e, exp[2])
                looked == <<LookedUp(exp[2])>>
            IN IF ~g.found
               THEN After(looked, Unbound(exp, g.env))
               ELSE After(looked \o <<Called(g.f, Sentinel)>>,
                          Returned(Apply(g.f, Sentinel), g.env))
      [] IsBool(exp) -> EvalOk(exp, e))

(***************************************************************************)
(* The inputs of the model.                                                *)
(***************************************************************************)
SeqsUpTo(S, n) == UNION {[1..m -> S] : m \in 0..n}

Chars == {LP, RP, " ", "a", "1"}

\* "(+ 1 1)", "(+ 1) (* 2 2)", "(+ 1)(* 2 2)" and "(foo)"
SampleTexts ==
    { <<LP, "+", " ", "1", " ", "1", RP>>,
      <<LP, "+", " ", "1", RP, " ", LP, "*", " ", "2", " ", "2", RP>>,
      <<LP, "+", " ", "1", RP, LP, "*", " ", "2", " ", "2", RP>>,
      <<LP, "f", "o", "o", RP>> }

Texts == SeqsUpTo(Chars, MaxTextLen) \cup SampleTexts

TokenAlphabet == {<<LP>>, <<RP>>, <<"1">>, <<"+">>, TrueText}

\* the mock tokens of tests::parse_expr_complex: ( + 1 ) ( * 2 2 )
ComplexTokens ==
    <<<<LP>>, <<"+">>, <<"1">>, <<RP>>, <<LP>>, <<"*">>, <<"2">>, <<"2">>, <<RP>>>>

TokenSeqs == SeqsUpTo(TokenAlphabet, MaxTokens) \cup {ComplexTokens}

Num(i) == Number(Fin(i, 1))
Sym(c) == Symbol(<<c>>)
SinSym == Symbol(<<"s", "i", "n">>)

\* the elements of the argument lists handed to the built-ins
ArgValues == {Num(0), Num(1), Num(2), Num(5), Bool(TRUE), Sym("x")}

BuiltinArgs ==
    {List(l) : l \in SeqsUpTo(ArgValues, MaxArgs)} \cup {Bool(TRUE), Num(1), Sym("x")}

\* the expressions handed to eval
EvalAtoms == {Num(1), Num(2), Bool(TRUE), SinSym, Sym("x")}

InnerLists ==
    {List(<<>>)} \cup
    {List(<<h>> \o a) : h \in {Sym("-"), SinSym, Sym("x")},
                        a \in {<<>>, <<Num(1)>>, <<Bool(TRUE)>>}}

EvalHeads ==
    {Sym("-"), Sym("<"), SinSym, Sym("x"), Num(1), Bool(TRUE), List(<<>>), List(<<Sym("-")>>)}

EvalExps ==
    EvalAtoms \cup {List(<<>>)} \cup {Symbol(key) : key \in DOMAIN create_default_env} \cup
    {List(<<h>> \o a) : h \in EvalHeads, a \in SeqsUpTo(EvalAtoms \cup InnerLists, MaxEvalArgs)}

\* the expressions of a further eval against the same environment
AgainExps ==
    { List(<<Sym("-"), Num(2), Num(1)>>), List(<<Sym("<"), Num(1), Num(2)>>), SinSym, Sym("x") }

\* the default environment, and one a caller built with the arithmetic entries only
Envs ==
    { create_default_env,
      [key \in {<<"+">>, <<"-">>, <<"*">>, <<"/">>, <<"%">>} |-> create_default_env[key]] }

(***************************************************************************)
(* The state machine: a caller of the crate's public functions.  It starts *)
(* from a text, from mock tokens, from a built-in taken out of the         *)
(* environment or from an expression it built, as the tests do.            *)
(***************************************************************************)
InitWith(inputs, envs) ==
    /\ op = "init"
    /\ arg = <<>>
    /\ ret = <<>>
    /\ env \in envs
    /\ env0 = env
    /\ input \in inputs
    /\ stream = <<>>
    /\ forms = <<>>
    /\ events = <<>>

\* tokenize(text)
Tokenize ==
    /\ op = "init"
    /\ op' = "tokenize"
    /\ arg' = input
    /\ ret' = tokenize(input)
    /\ stream' = ret'
    /\ UNCHANGED <<env, env0, input, forms, events>>

\* parse(&tokens[..])
Parse(tokens) ==
    /\ op' = "parse"
    /\ arg' = tokens
    /\ ret' = parse(tokens)
    /\ stream' = IF ret'.ok THEN ret'.rest ELSE <<>>
    /\ forms' = IF ret'.ok THEN Append(forms, ret'.exp) ELSE forms
    /\ UNCHANGED <<env, env0, input, events>>

\* parse of mock tokens
ParseMock ==
    /\ op = "init"
    /\ Parse(input)

\* parse of the tokens tokenize returned
ParseTokenized ==
    /\ op = "tokenize"
    /\ Parse(ret)

\* parse again, on the remaining tokens an earlier parse returned
ParseRemaining ==
    /\ op \in {"parse", "eval"}
    /\ stream # <<>>
    /\ Parse(stream)

\* env.data.get(key) and a call of the function found
CallBuiltin ==
    /\ op = "init"
    /\ input[1] \in DOMAIN env
    /\ op' = "call"
    /\ arg' = input
    /\ ret' = Apply(env[input[1]], input[2])
    /\ UNCHANGED <<env, env0, input, stream, forms, events>>

\* eval(exp, &mut env)
Eval(exp) ==
    /\ op' = "eval"
    /\ arg' = exp
    /\ LET r == eval(exp, env)
       IN /\ ret' = [kind |-> r.kind, val |-> r.val]
          /\ env' = r.env
          /\ events' = r.log
    /\ UNCHANGED <<env0, input, stream, forms>>

\* eval of an expression the caller built
EvalBuilt ==
    /\ op = "init"
    /\ Eval(input)

\* a further eval against the same environment, after one that returned
EvalAgain ==
    /\ op = "eval"
    /\ ret.kind # "Panic"
    /\ forms = <<>>
    /\ \E exp \in AgainExps : Eval(exp)

\* eval of the form parsed last
EvalParsed ==
    /\ op = "parse"
    /\ ret.ok
    /\ Eval(ret.exp)

TokenizeNext == Tokenize
ParseNext == ParseMock \/ ParseRemaining
CallNext == CallBuiltin
EvalNext == EvalBuilt \/ EvalAgain
Next == Tokenize \/ ParseTokenized \/ ParseRemaining \/ EvalParsed

InitText == InitWith(Texts, {create_default_env})
InitTokens == InitWith(TokenSeqs, {create_default_env})
InitCall == InitWith((DOMAIN create_default_env) \X BuiltinArgs, {create_default_env})
InitExp == InitWith(EvalExps, Envs)
Init == InitText

\* text -> tokens -> forms -> values
Spec == Init /\ [][Next]_vars
SpecTokenize == InitText /\ [][TokenizeNext]_vars
SpecParse == InitTokens /\ [][ParseNext]_vars
SpecCall == InitCall /\ [][CallNext]_vars
SpecEval == InitExp /\ [][EvalNext]_vars

(***************************************************************************)
(* Properties of tokenize and parse.                                       *)
(***************************************************************************)
HasParen(token) == \E i \in 1..Len(token) : token[i] \in {LP, RP}

\* C1: every token tokenize returns is exactly "(", exactly ")", or holds no
\* parenthesis character, also when a parenthesis is adjacent to an atom or to
\* another parenthesis in the text.
C1_ParensAreOwnTokens ==
    op = "tokenize" =>
        \A i \in 1..Len(ret) : ret[i] = <<LP>> \/ ret[i] = <<RP>> \/ ~HasParen(ret[i])

\* the nesting depth after the first i tokens
RECURSIVE Depth(_, _)
Depth(tokens, i) ==
    IF i = 0 THEN 0
    ELSE Depth(tokens, i - 1)
         + (IF tokens[i] = <<LP>> THEN 1 ELSE IF tokens[i] = <<RP>> THEN -1 ELSE 0)

\* the position of the ")" matching a "(" at position 1, or 0 when there is none
MatchIndex(tokens) ==
    LET closing == {i \in 2..Len(tokens) : Depth(tokens, i) = 0}
    IN IF closing = {} THEN 0 ELSE CHOOSE i \in closing : \A j \in closing : i <= j

\* the positions, in order, at which the sub-expressions between position 1 and
\* position m start
ItemStarts(tokens, m) ==
    LET StartsItem(j) == Depth(tokens, j - 1) = 1 /\ tokens[j] # <<RP>>
    IN SelectSeq([k \in 1..(m - 2) |-> k + 1], StartsItem)

OpensList(tokens) == tokens # <<>> /\ tokens[1] = <<LP>> /\ MatchIndex(tokens) # 0

\* C2: when the tokens start with "(" and hold its matching ")", parse returns the
\* List of the sub-expressions between the two, in source order, and the remaining
\* tokens are exactly the tokens after the matching ")", which play no part in the
\* expression returned.
C2_ListAndRemaining ==
    (op = "parse" /\ OpensList(arg)) =>
        LET m == MatchIndex(arg)
            starts == ItemStarts(arg, m)
        IN /\ ret.ok
           /\ IsList(ret.exp)
           /\ ret.rest = SubSeq(arg, m + 1, Len(arg))
           /\ Len(ret.exp[2]) = Len(starts)
           /\ \A i \in 1..Len(starts) :
                 ret.exp[2][i] = parse(SubSeq(arg, starts[i], m - 1)).exp
           /\ ret.exp = parse(SubSeq(arg, 1, m)).exp

\* a list of two different items was parsed and tokens remain after it
C2_Witness ==
    /\ op = "parse"
    /\ arg = ComplexTokens
    /\ ret.ok
    /\ ret.exp = List(<<Sym("+"), Num(1)>>)
    /\ ret.rest = SubSeq(ComplexTokens, 5, 9)

ParseMustFail(tokens) ==
    \/ tokens = <<>>
    \/ tokens[1] = <<RP>>
    \/ tokens[1] = <<LP>> /\ MatchIndex(tokens) = 0

\* C3: parse returns an error, and no expression, when the tokens are empty, when
\* the first token is ")" and when the first token is "(" and the tokens run out
\* before its matching ")"; on every other token sequence it succeeds.
C3_ParseErrors ==
    op = "parse" =>
        /\ ret.ok <=> ~ParseMustFail(arg)
        /\ ~ret.ok => ~IsExp(ret.exp)

\* the tokens ran out inside a nested list
C3_Witness ==
    /\ op = "parse"
    /\ arg = <<<<LP>>, <<"+">>, <<LP>>, <<"1">>, <<RP>>>>
    /\ ~ret.ok

\* C4 as stated: the second parse of ( + 1 ) ( * 2 2 ) yields a List of length 2.
C4_SecondListHasTwo ==
    (input = ComplexTokens /\ Len(forms) = 2) =>
        IsList(forms[1]) /\ IsList(forms[2]) /\ Len(forms[2][2]) = 2

\* C4 as amended: parse of ( + 1 ) ( * 2 2 ) yields a List of length 2 and the five
\* tokens of the second form; parse of those yields a List of length 3 and no
\* remaining tokens.
C4_TwoForms ==
    (input = ComplexTokens /\ op = "parse") =>
        /\ ret.ok
        /\ IsList(forms[1]) /\ Len(forms[1][2]) = 2
        /\ Len(forms) = 1 => stream = SubSeq(ComplexTokens, 5, 9)
        /\ Len(forms) = 2 => IsList(forms[2]) /\ Len(forms[2][2]) = 3 /\ stream = <<>>

\* both forms were parsed
C4_Witness ==
    /\ input = ComplexTokens
    /\ op = "parse"
    /\ Len(forms) = 2
    /\ forms[2] = List(<<Sym("*"), Num(2), Num(2)>>)

(***************************************************************************)
(* Properties of the built-ins.                                            *)
(***************************************************************************)
\* the function a call went through, and its argument
CalledFn == create_default_env[arg[1]]
CalledArgs == arg[2]

NumbersOf(list) == SelectSeq(list, IsNumber)

\* the left-to-right fold of f over numbers (not empty), seeded with the first
RECURSIVE FoldLeft(_, _)
FoldLeft(f, numbers) ==
    IF Len(numbers) = 1 THEN numbers[1][2]
    ELSE ArithOp(f, FoldLeft(f, SubSeq(numbers, 1, Len(numbers) - 1)),
                 numbers[Len(numbers)][2])

\* C5: an arithmetic built-in applied to a List skips every element that is not a
\* Number and returns the left-to-right fold of its operation over the Number
\* elements, seeded with the first of them, or Number(0.0) when there is none.
C5_FoldOverNumbers ==
    (op = "call" /\ CalledFn \in ArithFns /\ IsList(CalledArgs)) =>
        LET numbers == NumbersOf(CalledArgs[2])
        IN ret = Number(IF numbers = <<>> THEN Zero ELSE FoldLeft(CalledFn, numbers))

RelOf(f) ==
    CASE f = "less_than" -> "<"
      [] f = "more_than" -> ">"
      [] f = "equals" -> "=="
      [] f = "less_or_equal" -> "<="
      [] f = "more_or_equal" -> ">="

\* C6: a comparator applied to a List of two or more Numbers returns Bool(x OP y)
\* for the last two elements x and y of the list: earlier pairs have no influence.
C6_LastPairDecides ==
    (/\ op = "call"
     /\ CalledFn \in CompareFns
     /\ IsList(CalledArgs)
     /\ Len(CalledArgs[2]) >= 2
     /\ \A i \in 1..Len(CalledArgs[2]) : IsNumber(CalledArgs[2][i])) =>
        LET n == Len(CalledArgs[2])
            x == CalledArgs[2][n - 1][2]
            y == CalledArgs[2][n][2]
        IN ret = Bool(Compare(RelOf(CalledFn), x, y).b)

\* (< 1 5 2) is Bool(false), although 1 < 5
C6_Witness ==
    /\ op = "call"
    /\ arg = <<<<"<">>, List(<<Num(1), Num(5), Num(2)>>)>>
    /\ ret = Bool(FALSE)

\* C7: a comparator returns Bool(false) whenever its argument list holds fewer than
\* two Number elements, wherever they are in the list.
C7_FewNumbersGiveFalse ==
    (/\ op = "call"
     /\ CalledFn \in CompareFns
     /\ IsList(CalledArgs)
     /\ Len(NumbersOf(CalledArgs[2])) < 2) =>
        ret = Bool(FALSE)

\* C8: every built-in of the default environment, applied to any expression, returns
\* an expression and never aborts; sin, cos and tan applied to the empty List
\* return Number(0.0).
C8_BuiltinsTotal ==
    op = "call" =>
        /\ IsExp(ret)
        /\ (CalledFn \in TrigFns /\ CalledArgs = List(<<>>)) => ret = Number(Zero)

(***************************************************************************)
(* Properties of eval.                                                     *)
(***************************************************************************)
ArgsEvaluate(list) == \A i \in 2..Len(list) : eval(list[i], env0).kind = "Ok"

\* C9: eval of the empty List returns an error; eval of a List whose arguments all
\* evaluate returns the error "function not found" when the rendered text of its
\* head is no key of the environment; the head is not evaluated, so under the
\* default environment no List with a Number, a Bool or a List as its head
\* evaluates successfully.
C9_ListErrors ==
    (op = "eval" /\ IsList(arg)) =>
        /\ arg[2] = <<>> => ret.kind = "Err"
        /\ (arg[2] # <<>> /\ ArgsEvaluate(arg[2]) /\ Display(arg[2][1]) \notin DOMAIN env0) =>
              ret = [kind |-> "Err", val |-> Reason("Error, function not found.")]
        /\ (arg[2] # <<>> /\ env0 = create_default_env /\ ~IsSymbol(arg[2][1])) =>
              ret.kind # "Ok"

\* a List whose head is the List (-), with an argument that evaluates, under the
\* default environment
C9_Witness ==
    /\ op = "eval"
    /\ env0 = create_default_env
    /\ arg = List(<<List(<<Sym("-")>>), Num(1)>>)
    /\ ret = [kind |-> "Err", val |-> Reason("Error, function not found.")]

\* C10: eval leaves the environment as it was constructed, whether it returns a
\* value, returns an error or panics, so that every eval of a sequence of evals
\* against one environment returns what it returns alone.
C10_EnvUnchanged ==
    /\ env = env0
    /\ op = "eval" => ret = [kind |-> eval(arg, env0).kind, val |-> eval(arg, env0).val]

\* a second eval that uses the entry the first one used
C10_Witness ==
    /\ op = "eval"
    /\ input = List(<<Sym("-"), Num(1), List(<<Sym("-"), Num(1)>>)>>)
    /\ arg = List(<<Sym("-"), Num(2), Num(1)>>)
    /\ ret = [kind |-> "Ok", val |-> Num(1)]

\* the index in list of the first argument whose evaluation does not return Ok,
\* or 0 when every argument evaluates (list[1] is the head)
FirstFailing(list) ==
    LET failing == {i \in 2..Len(list) : eval(list[i], env0).kind # "Ok"}
    IN IF failing = {} THEN 0 ELSE CHOOSE i \in failing : \A j \in failing : i <= j

\* the steps of the evaluations of list[2], .., list[last], one after the other
RECURSIVE StepsOfArgs(_, _)
StepsOfArgs(list, last) ==
    IF last < 2 THEN <<>> ELSE StepsOfArgs(list, last - 1) \o eval(list[last], env0).log

EvaluatedArgs(list) == [i \in 1..(Len(list) - 1) |-> eval(list[i + 1], env0).val]

\* C11: eval of a non-empty List evaluates the arguments in index order; the first
\* argument whose evaluation fails ends the evaluation with that outcome, and then
\* no later argument is evaluated, the head is not looked up and no built-in is
\* called; when every argument evaluates, the head is looked up after the last of
\* them and, when it is bound, the built-in is called once, last, with the List
\* of the evaluated arguments in their order.
C11_ArgsInOrder ==
    (op = "eval" /\ IsList(arg) /\ arg[2] # <<>>) =>
        LET list == arg[2]
            k == FirstFailing(list)
            key == Display(list[1])
        IN IF k # 0
           THEN /\ events = <<Entered(arg)>> \o StepsOfArgs(list, k)
                /\ ret = [kind |-> eval(list[k], env0).kind, val |-> eval(list[k], env0).val]
           ELSE events = <<Entered(arg)>> \o StepsOfArgs(list, Len(list))
                         \o <<LookedUp(key)>>
                         \o (IF key \in DOMAIN env0
                             THEN <<Called(env0[key], List(EvaluatedArgs(list)))>>
                             ELSE <<>>)

\* an unbound head, a first argument that fails and a second one that would
\* evaluate: the error is the argument's and the second argument is not reached
C11_Witness ==
    /\ op = "eval"
    /\ env0 = create_default_env
    /\ arg = List(<<Sym("x"), Sym("x"), SinSym>>)
    /\ ret = [kind |-> "Err", val |-> Reason("Eval issue, not a real expression")]
    /\ events = <<Entered(arg), Entered(Sym("x")), LookedUp(<<"x">>)>>

IsValue(v) == IsNumber(v) \/ IsBool(v)

\* the argument lists handed to built-ins during the last eval
ListsHandedOver == {events[i][3] : i \in {j \in DOMAIN events : events[j][1] = "call" /\ IsList(events[j][3])}}

\* C13: under the default environment, what eval returns with Ok is a Number or
\* a Bool, whatever the nesting of the expression, never a Symbol or a List; and
\* every argument List eval hands to a built-in holds only Numbers and Bools.
C13_ValuesOnly ==
    (op = "eval" /\ env0 = create_default_env) =>
        /\ ret.kind = "Ok" => IsValue(ret.val) /\ ~IsSymbol(ret.val) /\ ~IsList(ret.val)
        /\ \A list \in ListsHandedOver : \A i \in DOMAIN list[2] : IsValue(list[2][i])

\* a nested expression whose inner list is evaluated to a Number before sin
\* receives it next to a Bool
C13_Witness ==
    /\ op = "eval"
    /\ env0 = create_default_env
    /\ arg = List(<<SinSym, List(<<Sym("-"), Num(1)>>), Bool(TRUE)>>)
    /\ ret.kind = "Ok"
    /\ IsNumber(ret.val)
    /\ ListsHandedOver = {List(<<Num(1)>>), List(<<Num(1), Bool(TRUE)>>)}

====
